---------------------------- MODULE Spec2Model ----------------------------
(***************************************************************************)
(* State-machine model of the gateway's health-data transfer engine        *)
(* (abdm-gateway-1/app/services/data_service.py) together with the consent *)
(* ledger it reads (consent_service.py).                                   *)
(*                                                                         *)
(* Every handler is an async coroutine that works on its own database      *)
(* session: an "await db.execute(select ...)" loads a private copy of a    *)
(* row, an "await db.commit()" flushes the attributes the handler changed  *)
(* with an unconditional UPDATE.  Each await is a point where other        *)
(* handlers run, so a handler is modelled as one action per await-to-await *)
(* segment that touches the database.                                      *)
(*                                                                         *)
(* app/services/task_processor.py (the delivery scheduler / webhook        *)
(* dispatcher), app/utils/encryption.py (the payload codec) and            *)
(* app/database/models.py (column defaults) are not part of the sources    *)
(* at hand; they are modelled from sections 4.2-4.5 of the specification.  *)
(*                                                                         *)
(* Time is a discrete clock counted in hours.                              *)
(***************************************************************************)
EXTENDS Integers, FiniteSets, Sequences, TLC

VARIABLES
    now,        \* the wall clock (datetime.utcnow()), in hours
    patients,   \* gateway Patient table: abha id -> number of rows that carry it
    consent,    \* ConsentRequest table: consent id -> status ("ABSENT" = no row)
    tr,         \* DataTransfer table: transfer id -> row
    req,        \* request_health_info calls in progress, one slot per transfer id
    recv,       \* receive_health_data_from_hip calls, one slot per caller
    wk,         \* scheduler workers (task_processor)
    resp,       \* what the last call of a handler whose answer is recorded returned
    ens,        \* gateway calls that are inside _ensure_patient, one slot per caller
    lreq,       \* gateway LinkingRequest table: a set of rows
    lcc,        \* gateway LinkedCareContext table: a set of rows
    hpatients,  \* hospital Patient table: a set of rows
    hrecords,   \* hospital HealthRecord table: the rows in insertion order
    hcontexts,  \* hospital CareContext table: a set of rows
    hreg        \* hospital register_patient calls in progress, one slot per caller

\* The tables and calls of the transfer engine and the consent ledger
core == <<now, patients, consent, tr, req, recv, wk>>

\* The gateway's linking tables
linking == <<lreq, lcc>>

\* The hospital's tables and calls
hospital == <<hpatients, hrecords, hcontexts, hreg>>

\* What the handlers of the transfer engine and the consent ledger leave alone
aux == <<ens, linking, hospital>>

vars == <<core, resp, aux>>

NULL == "NULL"

----------------------------------------------------------------------------
(* Bounds of the model *)

MaxTime == 36        \* the clock stops advancing here
ClockStep == 12      \* hours the clock advances in one step
MaxAttempts == 3     \* cap on webhook_attempts (and so on retry_count)

(* Identifiers and inputs *)

IdOrder == <<"t1">>
TransferIds == {IdOrder[i] : i \in 1..Len(IdOrder)}
ConsentIds == {"c1"}
LedgerConsentIds == {"c1", "c2"}
UnknownConsentId == "c9"
PatientIds == {"p1"}
SubjectIds == PatientIds \cup {"p2"}
EnsureHandlers == {"init_consent", "request_health_info"}
RecvOrder == <<"h1", "h2">>
Receivers == {RecvOrder[i] : i \in 1..Len(RecvOrder)}
Workers == {"w1", "w2"}
EnsureCallers == {"e1", "e2"}
Registrars == {"r1", "r2"}
Bundles == {"b1", "b2"}
TxnOrder == <<"x1", "x2">>
GeneratedTxnIds == {TxnOrder[i] : i \in 1..Len(TxnOrder)}
CallerTxnId == "x9"
TxnIds == GeneratedTxnIds \cup {CallerTxnId}
LinkStatusInputs == {"LINKED", "FAILED"}
Otps == {"123456", "000000"}
CareContextIds == {"cc1", "cc2"}
DataTypeLists == {<< >>, <<"Prescription">>}
ConsentStatusInputs == {"APPROVED", "DENIED", "REVOKED", "GRANTED"}
DataFlowStatusInputs == {"REQUESTED", "PROCESSING", "READY", "DELIVERED", "FAILED"}


----------------------------------------------------------------------------
(* Helpers *)

NoTime == 0 - 1      \* a NULL timestamp column

Absent(t) == tr[t].status = "ABSENT"
Exists(t) == ~Absent(t)

\* uuid4(): the id of a new transfer is one no row and no call in progress uses
Free(t) == Absent(t) /\ req[t].pc = "idle"
FirstFree(t) ==
    /\ Free(t)
    /\ \A i, j \in 1..Len(IdOrder) : (IdOrder[j] = t /\ i < j) => ~Free(IdOrder[i])

\* A new call runs in the first handler slot that is idle
FirstIdle(k) ==
    /\ recv[k].pc = "idle"
    /\ \A i, j \in 1..Len(RecvOrder) :
          (RecvOrder[j] = k /\ i < j) => recv[RecvOrder[i]].pc # "idle"

\* f"consent-{uuid.uuid4()}": the consent created for a call that names none
AutoConsentId(t) == "consent-" \o t

ConsentKeys == LedgerConsentIds \cup {AutoConsentId(t) : t \in TransferIds}

\* A row of the DataTransfer table that does not exist
NoRow ==
    [status |-> "ABSENT", consent_id |-> NULL, encrypted_data |-> NULL,
     data_count |-> 0, retry_count |-> 0, webhook_attempts |-> 0,
     last_error |-> NULL, next_retry_at |-> NoTime, expires_at |-> NoTime]

\* Column default DataTransfer.max_retries
MaxRetries == 2

\* Payload codec: encrypt_dict turns a bundle into an opaque blob, decrypt
\* reverses exactly the blobs encrypt_dict made
Encrypt(b) == "enc(" \o b \o ")"
Blobs == {Encrypt(b) : b \in Bundles}
Decrypt(blob) == CHOOSE b \in Bundles : Encrypt(b) = blob

IdleReq ==
    [pc |-> "idle", patient |-> NULL, consent_arg |-> NULL, data_types |-> << >>,
     seen |-> NULL, webhook_sent |-> FALSE, result |-> NULL]

IdleRecv ==
    [pc |-> "idle", target |-> NULL, bundle |-> NULL, seen |-> NULL,
     result |-> NULL]

IdleWorker == [op |-> "idle", t |-> NULL, rc |-> 0, wa |-> 0]

\* No handler has returned yet
NoResponse == [op |-> "none"]

\* A caller slot that is not inside _ensure_patient
IdleEnsure == [pc |-> "idle", handler |-> NULL, patient |-> NULL, found |-> FALSE]

\* A register_patient slot with no call in progress
IdleRegistrar == [pc |-> "idle", request |-> NULL]

Init ==
    /\ now = 0
    /\ patients = [p \in SubjectIds |-> 0]
    /\ consent = [c \in ConsentKeys |-> "ABSENT"]
    /\ tr = [t \in TransferIds |-> NoRow]
    /\ req = [t \in TransferIds |-> IdleReq]
    /\ recv = [k \in Receivers |-> IdleRecv]
    /\ wk = [w \in Workers |-> IdleWorker]
    /\ resp = NoResponse
    /\ ens = [k \in EnsureCallers |-> IdleEnsure]
    /\ lreq = << >>
    /\ lcc = << >>
    /\ hpatients = {}
    /\ hrecords = << >>
    /\ hcontexts = << >>
    /\ hreg = [k \in Registrars |-> IdleRegistrar]

----------------------------------------------------------------------------
(* The clock *)

AdvanceClock ==
    /\ now + ClockStep <= MaxTime
    /\ now' = now + ClockStep
    /\ UNCHANGED <<patients, consent, tr, req, recv, wk, resp, aux>>

----------------------------------------------------------------------------
(* Consent ledger: consent_service.py *)

\* _ensure_patient: the patient row is created when it is missing
EnsurePatient(p) ==
    IF patients[p] = 0 THEN [patients EXCEPT ![p] = 1] ELSE patients

\* Variant of the status of a new consent, for the sensitivity of C18: the
\* record is left PENDING
NewConsentStatus_Pending == "PENDING"

\* line 32: the status init_consent stores
NewConsentStatus == "APPROVED"

\* init_consent: a fresh consent id (uuid4), stored with NewConsentStatus;
\* the id and the status read back from the row are returned
InitConsent(p, c) ==
    /\ consent[c] = "ABSENT"
    /\ patients' = EnsurePatient(p)
    /\ consent' = [consent EXCEPT ![c] = NewConsentStatus]
    /\ resp' = [op |-> "init_consent", consentRequestId |-> c,
                status |-> consent'[c]]
    /\ UNCHANGED <<now, tr, req, recv, wk, aux>>

\* get_consent_status: the status of the row, None when there is no row
GetConsentStatus(c) ==
    IF c \in ConsentKeys /\ consent[c] # "ABSENT" THEN consent[c] ELSE NULL

\* lines 75-80: the lookup of notify_consent finds a row
ConsentKnown(c) == c \in ConsentKeys /\ consent[c] # "ABSENT"

\* Variant of the write of notify_consent, for the sensitivity of C19: a
\* record is stored for an id that has none
NotifiedLedger_Upsert(c, s) ==
    IF c \in ConsentKeys THEN [consent EXCEPT ![c] = s] ELSE consent

\* lines 80-82: the status of a known consent is overwritten with the given
\* value, whatever the value; an unknown id changes nothing
NotifiedLedger(c, s) ==
    IF ConsentKnown(c) THEN [consent EXCEPT ![c] = s] ELSE consent

\* lines 83-85: the status notify_consent returns
NotifyResult(c, s) == IF ConsentKnown(c) THEN s ELSE "NOT_FOUND"

NotifyConsent(c, s) ==
    /\ consent' = NotifiedLedger(c, s)
    /\ resp' = [op |-> "notify_consent", consentRequestId |-> c,
                status |-> NotifyResult(c, s)]
    /\ UNCHANGED <<now, patients, tr, req, recv, wk, aux>>

----------------------------------------------------------------------------
(* Transfer engine: data_service.py, request_health_info *)

\* The consent id _ensure_consent_approved returns for transfer t's call
ApprovedConsentId(t, c) ==
    IF c # NULL THEN c ELSE AutoConsentId(t)

\* What the consent lookup of _ensure_consent_approved finds
ConsentSeen(c) ==
    IF c # NULL THEN consent[c] ELSE "ABSENT"

\* _ensure_consent_approved: a consent that exists and is not APPROVED is
\* set to APPROVED; when none is named or found, one is created APPROVED
EnsureConsentApproved(t, c) ==
    IF c # NULL /\ consent[c] # "ABSENT"
    THEN IF consent[c] # "APPROVED"
         THEN [consent EXCEPT ![c] = "APPROVED"]
         ELSE consent
    ELSE [consent EXCEPT ![ApprovedConsentId(t, c)] = "APPROVED"]

\* timedelta(hours=24)
TransferTtl == 24

\* Variant of the inserted row, for the sensitivity of C14: the data count
\* is 1 whatever was requested
NewTransfer_CountOne(cid, data_types) ==
    [status |-> "REQUESTED", consent_id |-> cid, encrypted_data |-> NULL,
     data_count |-> 1, retry_count |-> 0, webhook_attempts |-> 0,
     last_error |-> NULL, next_retry_at |-> now, expires_at |-> now + TransferTtl]

\* The row request_health_info inserts
NewTransfer(cid, data_types) ==
    [status |-> "REQUESTED", consent_id |-> cid, encrypted_data |-> NULL,
     data_count |-> Len(data_types), retry_count |-> 0, webhook_attempts |-> 0,
     last_error |-> NULL, next_retry_at |-> now, expires_at |-> now + TransferTtl]

\* Variant of the status written after the webhook call, for the
\* sensitivity of C24: FORWARDED whatever the call reported
StatusAfterWebhook_AlwaysForwarded(webhook_sent) == "FORWARDED"

\* The status request_health_info writes once the webhook call has returned
StatusAfterWebhook(webhook_sent) ==
    IF webhook_sent THEN "FORWARDED" ELSE "FAILED"

\* line 70: entry of the call and _ensure_patient
ReqEnsurePatient(t, p, c, d) ==
    /\ FirstFree(t)
    /\ patients' = EnsurePatient(p)
    /\ req' = [req EXCEPT ![t] =
                 [IdleReq EXCEPT !.pc = "patient", !.patient = p,
                                 !.consent_arg = c, !.data_types = d]]
    /\ UNCHANGED <<now, consent, tr, recv, wk, resp, aux>>

\* line 71: _ensure_consent_approved
ReqEnsureConsent(t) ==
    /\ req[t].pc = "patient"
    /\ consent' = EnsureConsentApproved(t, req[t].consent_arg)
    /\ req' = [req EXCEPT ![t].pc = "consent",
                          ![t].seen = ConsentSeen(req[t].consent_arg)]
    /\ UNCHANGED <<now, patients, tr, recv, wk, resp, aux>>

\* lines 73-88: the row is inserted and committed
ReqCreate(t) ==
    /\ req[t].pc = "consent"
    /\ tr' = [tr EXCEPT ![t] = NewTransfer(ApprovedConsentId(t, req[t].consent_arg),
                                           req[t].data_types)]
    /\ req' = [req EXCEPT ![t].pc = "created"]
    /\ UNCHANGED <<now, patients, consent, recv, wk, resp, aux>>

\* lines 92-101: the forwarding webhook goes out to the holder
ReqDispatch(t) ==
    /\ req[t].pc = "created"
    /\ req' = [req EXCEPT ![t].pc = "sending"]
    /\ UNCHANGED <<now, patients, consent, tr, recv, wk, resp, aux>>

\* lines 103-116: the webhook call has returned; the status is written with
\* an unconditional UPDATE of the status column and returned
ReqFinish(t, webhook_sent) ==
    /\ req[t].pc = "sending"
    /\ tr' = [tr EXCEPT ![t].status = StatusAfterWebhook(webhook_sent)]
    /\ req' = [req EXCEPT ![t].pc = "done",
                          ![t].webhook_sent = webhook_sent,
                          ![t].result = tr'[t].status]
    /\ UNCHANGED <<now, patients, consent, recv, wk, resp, aux>>

----------------------------------------------------------------------------
(* receive_health_data_from_hip *)

\* Variants of the status check, for the sensitivity of C5 and C6: one that
\* turns a REQUESTED transfer away, one that also accepts a READY transfer
AcceptedStatuses_NoRequested == {"FORWARDED", "PROCESSING"}
AcceptedStatuses_WithReady == {"REQUESTED", "FORWARDED", "PROCESSING", "READY"}

\* line 145: the statuses in which a payload is accepted
AcceptedStatuses == {"REQUESTED", "FORWARDED", "PROCESSING"}

\* Variant of the write, for the sensitivity of C7: the next-action time is
\* left as it was
StorePayload_NoReschedule(row, b) ==
    [row EXCEPT !.encrypted_data = Encrypt(b),
                !.status = "READY"]

\* lines 151-153: what the handler changes on the row
StorePayload(row, b) ==
    [row EXCEPT !.encrypted_data = Encrypt(b),
                !.status = "READY",
                !.next_retry_at = now]

\* lines 138-146: the row is loaded; a missing row or a status that is not
\* accepted ends the call with an error result and no write
RecvLoad(k, t, b) ==
    /\ FirstIdle(k)
    /\ recv' = [recv EXCEPT ![k] =
          IF Absent(t)
          THEN [pc |-> "idle", target |-> t, bundle |-> NULL,
                seen |-> "ABSENT", result |-> "FAILED"]
          ELSE IF tr[t].status \notin AcceptedStatuses
          THEN [pc |-> "idle", target |-> t, bundle |-> NULL,
                seen |-> tr[t].status, result |-> "FAILED"]
          ELSE [pc |-> "loaded", target |-> t, bundle |-> b,
                seen |-> tr[t].status, result |-> NULL]]
    /\ UNCHANGED <<now, patients, consent, tr, req, wk, resp, aux>>

\* lines 149-165: the payload is encrypted, the row is updated and committed
RecvCommit(k) ==
    /\ recv[k].pc = "loaded"
    /\ tr' = [tr EXCEPT ![recv[k].target] = StorePayload(@, recv[k].bundle)]
    /\ recv' = [recv EXCEPT ![k].pc = "idle", ![k].result = "READY"]
    /\ UNCHANGED <<now, patients, consent, req, wk, resp, aux>>

----------------------------------------------------------------------------
(* send_health_info, notify_data_flow *)

\* lines 183-191: the row the legacy send_health_info inserts
LegacyTransfer(txn_id) ==
    [NoRow EXCEPT !.status = "DELIVERED", !.consent_id = txn_id,
                  !.data_count = 1]

SendHealthInfo(t, txn_id) ==
    /\ FirstFree(t)
    /\ tr' = [tr EXCEPT ![t] = LegacyTransfer(txn_id)]
    /\ UNCHANGED <<now, patients, consent, req, recv, wk, resp, aux>>

\* lines 257-260: the status of an existing row is overwritten
NotifiedRow(row, status) == [row EXCEPT !.status = status]

NotifyDataFlow(t, status) ==
    /\ tr' = IF Exists(t) THEN [tr EXCEPT ![t] = NotifiedRow(@, status)] ELSE tr
    /\ UNCHANGED <<now, patients, consent, req, recv, wk, resp, aux>>

\* Variant of the answer of notify_data_flow, for the sensitivity of C21:
\* the given status is echoed also when there is no row
NotifyDataFlowResult_Echo(t, status) == status

\* lines 260-262: the status notify_data_flow returns
NotifyDataFlowResult(t, status) == IF Exists(t) THEN status ELSE "NOT_FOUND"

\* notify_data_flow called by the client whose answers are recorded
NotifyDataFlowAnswered(t, status) ==
    /\ tr' = IF Exists(t) THEN [tr EXCEPT ![t] = NotifiedRow(@, status)] ELSE tr
    /\ resp' = [op |-> "notify_data_flow", txnId |-> t,
                status |-> NotifyDataFlowResult(t, status)]
    /\ UNCHANGED <<now, patients, consent, req, recv, wk, aux>>

----------------------------------------------------------------------------
(* get_data_request_status *)

\* Variant of the status test, for the sensitivity of C20: the retry
\* information is left out for a FAILED transfer
RetryInfoStatuses_ReadyOnly == {"READY"}

\* line 227: the statuses for which the retry information is returned
RetryInfoStatuses == {"READY", "FAILED"}

\* lines 215-242: the dictionary returned for an existing row, as a function
\* from its keys to their values
StatusInfo(t) ==
    LET row == tr[t]
        base == [requestId |-> t, status |-> row.status,
                 dataCount |-> row.data_count,
                 dataStored |-> row.encrypted_data # NULL]
        retry == IF row.status \in RetryInfoStatuses
                 THEN [retryCount |-> row.retry_count,
                       maxRetries |-> MaxRetries,
                       webhookAttempts |-> row.webhook_attempts,
                       lastError |-> row.last_error]
                 ELSE << >>
        expiry == IF row.encrypted_data # NULL
                  THEN [expiresAt |-> row.expires_at]
                  ELSE << >>
    IN base @@ retry @@ expiry

\* lines 209-244: the row is read and described; None when there is no row
GetDataRequestStatus(t) ==
    /\ resp' = IF Exists(t)
               THEN [op |-> "get_data_request_status", requestId |-> t,
                     found |-> TRUE, info |-> StatusInfo(t)]
               ELSE [op |-> "get_data_request_status", requestId |-> t,
                     found |-> FALSE]
    /\ UNCHANGED <<now, patients, consent, tr, req, recv, wk, aux>>

----------------------------------------------------------------------------
(* Delivery scheduler and webhook dispatcher (task_processor), after        *)
(* sections 4.2 - 4.4 of the specification.  A worker reads a due record,   *)
(* calls the dispatcher, and writes the outcome back with the conditional   *)
(* transition; other handlers run while the dispatcher call is in flight.   *)

BackoffBase == 6
BackoffCap == 12
ForwardTimeout == 12

Min(a, b) == IF a <= b THEN a ELSE b

\* backoff(n) = min(base * 2^n, cap)
Backoff(n) == Min(BackoffBase * (2 ^ n), BackoffCap)

TerminalStatuses == {"DELIVERED", "EXPIRED"}

\* Variant of due_for_action, for the sensitivity of C10: the expiry is not
\* looked at
DueForAction_IgnoreExpiry(row) ==
    /\ row.next_retry_at # NoTime /\ row.next_retry_at <= now
    /\ \/ row.status \in {"REQUESTED", "READY"}
       \/ row.status = "FAILED" /\ row.retry_count < MaxRetries

\* due_for_action(now): next_action_at <= now, expires_at > now, and the
\* status is REQUESTED, READY, or FAILED with retries left
DueForAction(row) ==
    /\ row.next_retry_at # NoTime /\ row.next_retry_at <= now
    /\ row.expires_at # NoTime /\ row.expires_at > now
    /\ \/ row.status \in {"REQUESTED", "READY"}
       \/ row.status = "FAILED" /\ row.retry_count < MaxRetries

\* transition(id, expected, new_state, updates): applies only when the
\* current status is one of the expected ones
Transition(t, expected, new_row) ==
    IF tr[t].status \in expected THEN [tr EXCEPT ![t] = new_row] ELSE tr

\* step 1: a non-terminal record whose expiry has passed becomes EXPIRED
Expire(t) ==
    /\ Exists(t)
    /\ tr[t].status \notin TerminalStatuses
    /\ tr[t].expires_at # NoTime /\ tr[t].expires_at <= now
    /\ tr' = Transition(t, {tr[t].status}, [tr[t] EXCEPT !.status = "EXPIRED"])
    /\ UNCHANGED <<now, patients, consent, req, recv, wk, resp, aux>>

\* step 2: a due REQUESTED record whose consent is APPROVED is forwarded
ForwardStart(w, t) ==
    /\ wk[w].op = "idle"
    /\ Exists(t)
    /\ tr[t].status = "REQUESTED"
    /\ DueForAction(tr[t])
    /\ tr[t].consent_id \in ConsentKeys
    /\ consent[tr[t].consent_id] = "APPROVED"
    /\ wk' = [wk EXCEPT ![w] = [op |-> "forward", t |-> t,
                                rc |-> tr[t].retry_count,
                                wa |-> tr[t].webhook_attempts]]
    /\ UNCHANGED <<now, patients, consent, tr, req, recv, resp, aux>>

ForwardFinish(w, ok) ==
    /\ wk[w].op = "forward"
    /\ ok \/ wk[w].wa < MaxAttempts
    /\ LET t == wk[w].t
           new_row ==
             IF ok
             THEN [tr[t] EXCEPT !.status = "FORWARDED",
                                !.next_retry_at = now + ForwardTimeout]
             ELSE [tr[t] EXCEPT !.status = "FAILED",
                                !.webhook_attempts = wk[w].wa + 1,
                                !.last_error = "webhook failed",
                                !.next_retry_at = now + Backoff(wk[w].rc)]
       IN tr' = Transition(t, {"REQUESTED"}, new_row)
    /\ wk' = [wk EXCEPT ![w] = IdleWorker]
    /\ UNCHANGED <<now, patients, consent, req, recv, resp, aux>>

\* step 3: a due READY or retryable FAILED record that holds a payload is
\* delivered to the requester
DeliverStart(w, t) ==
    /\ wk[w].op = "idle"
    /\ Exists(t)
    /\ tr[t].status \in {"READY", "FAILED"}
    /\ DueForAction(tr[t])
    /\ tr[t].encrypted_data # NULL
    /\ wk' = [wk EXCEPT ![w] = [op |-> "deliver", t |-> t,
                                rc |-> tr[t].retry_count,
                                wa |-> tr[t].webhook_attempts]]
    /\ UNCHANGED <<now, patients, consent, tr, req, recv, resp, aux>>

DeliverFinish(w, ok) ==
    /\ wk[w].op = "deliver"
    /\ ok \/ wk[w].wa < MaxAttempts
    /\ LET t == wk[w].t
           rc == wk[w].rc + 1
           new_row ==
             IF ok
             THEN [tr[t] EXCEPT !.status = "DELIVERED"]
             ELSE IF rc < MaxRetries
             THEN [tr[t] EXCEPT !.retry_count = rc,
                                !.webhook_attempts = wk[w].wa + 1,
                                !.last_error = "webhook failed",
                                !.next_retry_at = now + Backoff(rc)]
             ELSE [tr[t] EXCEPT !.status = "FAILED",
                                !.retry_count = rc,
                                !.webhook_attempts = wk[w].wa + 1,
                                !.last_error = "webhook failed"]
       IN tr' = Transition(t, {"READY", "FAILED"}, new_row)
    /\ wk' = [wk EXCEPT ![w] = IdleWorker]
    /\ UNCHANGED <<now, patients, consent, req, recv, resp, aux>>

----------------------------------------------------------------------------
(* _ensure_patient of consent_service.py and data_service.py, await by      *)
(* await: the select and the insert are two database round trips, and       *)
(* other calls run between them.  Patient.abha_id is the column the foreign *)
(* keys of ConsentRequest and DataTransfer refer to (models.py, after       *)
(* section 3 of the specification: each transfer and each consent belongs   *)
(* to one subject record), so the table holds one row per abha id and an    *)
(* INSERT of a second one is refused with an IntegrityError.                *)

\* Variant of the INSERT, for the sensitivity of C26: abha_id is no key and
\* every INSERT adds a row
InsertRefused_NoKey(p) == FALSE

\* the INSERT is refused when a row with this abha id is in the table
InsertRefused(p) == patients[p] > 0

\* lines 10-11 / 14-15: a call of handler h enters _ensure_patient and selects
\* the row of subject p
EnsSelect(k, h, p) ==
    /\ ens[k].pc = "idle"
    /\ ens' = [ens EXCEPT ![k] = [pc |-> "selected", handler |-> h,
                                  patient |-> p, found |-> patients[p] > 0]]
    /\ UNCHANGED <<core, resp, linking, hospital>>

\* lines 12-18 / 16-22: the row that was found is returned; otherwise a row
\* is added and committed, and the call ends with the error when the INSERT
\* is refused
EnsInsert(k) ==
    /\ ens[k].pc = "selected"
    /\ LET p == ens[k].patient IN
       IF ens[k].found
       THEN /\ ens' = [ens EXCEPT ![k].pc = "ensured"]
            /\ UNCHANGED patients
       ELSE IF InsertRefused(p)
       THEN /\ ens' = [ens EXCEPT ![k].pc = "raised"]
            /\ UNCHANGED patients
       ELSE /\ ens' = [ens EXCEPT ![k].pc = "ensured"]
            /\ patients' = [patients EXCEPT ![p] = @ + 1]
    /\ UNCHANGED <<now, consent, tr, req, recv, wk, resp, linking, hospital>>

\* the IntegrityError leaves the handler: the call is over
EnsRaised(k) ==
    /\ ens[k].pc = "raised"
    /\ ens' = [ens EXCEPT ![k] = IdleEnsure]
    /\ resp' = [op |-> ens[k].handler, patient |-> ens[k].patient,
                raised |-> TRUE]
    /\ UNCHANGED <<core, linking, hospital>>

\* consent_service.py lines 25-41: init_consent after _ensure_patient
InitConsentAfterEnsure(k, c) ==
    /\ ens[k].pc = "ensured" /\ ens[k].handler = "init_consent"
    /\ consent[c] = "ABSENT"
    /\ consent' = [consent EXCEPT ![c] = NewConsentStatus]
    /\ resp' = [op |-> "init_consent", consentRequestId |-> c,
                status |-> consent'[c]]
    /\ ens' = [ens EXCEPT ![k] = IdleEnsure]
    /\ UNCHANGED <<now, patients, tr, req, recv, wk, linking, hospital>>

\* data_service.py line 70: request_health_info after _ensure_patient
ReqAfterEnsure(k, t, c, d) ==
    /\ ens[k].pc = "ensured" /\ ens[k].handler = "request_health_info"
    /\ FirstFree(t)
    /\ req' = [req EXCEPT ![t] =
                 [IdleReq EXCEPT !.pc = "patient", !.patient = ens[k].patient,
                                 !.consent_arg = c, !.data_types = d]]
    /\ ens' = [ens EXCEPT ![k] = IdleEnsure]
    /\ UNCHANGED <<now, patients, consent, tr, recv, wk, resp, linking, hospital>>

----------------------------------------------------------------------------
(* Gateway linking: linking_service.py.  The properties of these handlers   *)
(* are about calls made one after another, so a call is one action.         *)

MaxContexts == 2     \* longest list of care contexts in one link_care_contexts
CareContextLists == UNION {[1..n -> CareContextIds] : n \in 0..MaxContexts}

\* uuid4(): the transaction id of a new link token is one no row uses
FreshTxn(x) ==
    /\ x \in GeneratedTxnIds
    /\ \A i \in 1..Len(lreq) : lreq[i].txn_id # x
    /\ \A i, j \in 1..Len(TxnOrder) :
          (TxnOrder[j] = x /\ i < j) => \E n \in 1..Len(lreq) : lreq[n].txn_id = TxnOrder[i]

\* the LinkingRequest rows with this transaction id
LinkRows(x) == {i \in 1..Len(lreq) : lreq[i].txn_id = x}

\* the LinkedCareContext rows of a table with this care-context id
ContextRows(table, c) == {i \in 1..Len(table) : table[i].care_context_id = c}

\* lines 67-85: generate_link_token stores a request INITIATED under a new
\* transaction id
GenerateLinkToken(p, x) ==
    /\ FreshTxn(x)
    /\ patients' = EnsurePatient(p)
    /\ lreq' = Append(lreq, [txn_id |-> x, patient |-> p, status |-> "INITIATED"])
    /\ resp' = [op |-> "generate_link_token", txnId |-> x]
    /\ UNCHANGED <<now, consent, tr, req, recv, wk, ens, lcc, hospital>>

\* Variant of the lookup of link_care_contexts, for the sensitivity of C27:
\* no care context is ever found linked
ContextLinked_Never(table, c) == FALSE

\* lines 94-99: the select of the loop, which sees the rows the session has
\* added so far (the session flushes before a query)
ContextLinked(table, c) == ContextRows(table, c) # {}

\* lines 93-107: the loop over the care contexts; table is the
\* LinkedCareContext table with the rows added so far, count is created_count
RECURSIVE LinkLoop(_, _, _, _, _)
LinkLoop(p, ccs, i, table, count) ==
    IF i > Len(ccs) THEN [table |-> table, count |-> count]
    ELSE IF ContextLinked(table, ccs[i])
    THEN LinkLoop(p, ccs, i + 1, table, count)
    ELSE LinkLoop(p, ccs, i + 1,
                  Append(table, [care_context_id |-> ccs[i], patient |-> p]),
                  count + 1)

\* lines 88-110: link_care_contexts
LinkCareContexts(p, ccs) ==
    /\ patients' = EnsurePatient(p)
    /\ LET loop == LinkLoop(p, ccs, 1, lcc, 0) IN
       /\ lcc' = loop.table
       /\ resp' = [op |-> "link_care_contexts", care_contexts |-> ccs,
                   status |-> "LINKED", count |-> loop.count]
    /\ UNCHANGED <<now, consent, tr, req, recv, wk, ens, lreq, hospital>>

\* Variant of the write of init_link and confirm_link, for the sensitivity
\* of C28: a row is added whether or not the transaction has one
LinkUpsert_AlwaysInsert(x, p, status) ==
    Append(lreq, [txn_id |-> x, patient |-> p, status |-> status])

\* lines 215-239 / 258-279: the row of the transaction is updated, or added
\* when the transaction has none
LinkUpsert(x, p, status) ==
    IF LinkRows(x) # {}
    THEN [i \in 1..Len(lreq) |->
            IF lreq[i].txn_id = x
            THEN [lreq[i] EXCEPT !.patient = p, !.status = status]
            ELSE lreq[i]]
    ELSE Append(lreq, [txn_id |-> x, patient |-> p, status |-> status])

\* lines 204-246: init_link
InitLink(p, x) ==
    /\ patients' = EnsurePatient(p)
    /\ lreq' = LinkUpsert(x, p, "LINKED")
    /\ resp' = [op |-> "init_link", txnId |-> x, status |-> "LINKED"]
    /\ UNCHANGED <<now, consent, tr, req, recv, wk, ens, lcc, hospital>>

\* lines 249-285: confirm_link; the otp is not looked at
ConfirmLink(p, x, otp) ==
    /\ patients' = EnsurePatient(p)
    /\ lreq' = LinkUpsert(x, p, "CONFIRMED")
    /\ resp' = [op |-> "confirm_link", txnId |-> x, otp |-> otp,
                status |-> "CONFIRMED"]
    /\ UNCHANGED <<now, consent, tr, req, recv, wk, ens, lcc, hospital>>

\* lines 288-299: notify_link writes the status on the row it finds and
\* answers with the status it was given
NotifyLink(x, status) ==
    /\ lreq' = [i \in 1..Len(lreq) |->
                  IF lreq[i].txn_id = x THEN [lreq[i] EXCEPT !.status = status]
                  ELSE lreq[i]]
    /\ resp' = [op |-> "notify_link", txnId |-> x, status |-> status]
    /\ UNCHANGED <<core, ens, lcc, hospital>>

----------------------------------------------------------------------------
(* Receiving hospital: abdm-hospital/app/services/health_data_service.py.   *)
(* The hospital works on a synchronous database session: a handler runs    *)
(* without interruption up to its first await of a gateway call.           *)

MaxBatch == 2        \* longest list of records in one delivery
MaxRecords == 3      \* the HealthRecord table holds at most this many rows

HPatientIdOrder == <<"u1", "u2", "u3">>
HPatientIds == {HPatientIdOrder[i] : i \in 1..Len(HPatientIdOrder)}
HIdentifiers == {"u1", "abha-1"}

\* datetime.fromisoformat accepts the first date and raises on the second
RecordInputs ==
    {[type |-> "PRESCRIPTION", date |-> "2024-01-01"],
     [type |-> "DIAGNOSTIC_REPORT", date |-> "2024-01-01"],
     [type |-> "PRESCRIPTION", date |-> "01/02/2024"]}
Batches == UNION {[1..n -> RecordInputs] : n \in 0..MaxBatch}

\* line 224: datetime.fromisoformat(record_data.get("date", ...))
DateParses(date) == date = "2024-01-01"

\* uuid.uuid4() for a new patient: an id no row uses
FreshHPatientId ==
    LET free == {i \in 1..Len(HPatientIdOrder) :
                    \A r \in hpatients : r.id # HPatientIdOrder[i]}
    IN HPatientIdOrder[CHOOSE i \in free : \A j \in free : i <= j]

HasFreshHPatientId ==
    \E i \in 1..Len(HPatientIdOrder) : \A r \in hpatients : r.id # HPatientIdOrder[i]

\* lines 17-42, _get_or_create_patient_by_identifier: the row whose id is the
\* identifier, else the row whose ABHA id is the identifier, else a new stub
\* row (under the identifier when it is a UUID), which is committed
PatientByIdentifier(ident) ==
    IF \E r \in hpatients : r.id = ident
    THEN CHOOSE r \in hpatients : r.id = ident
    ELSE IF \E r \in hpatients : r.abha = ident
    THEN CHOOSE r \in hpatients : r.abha = ident
    ELSE [id |-> IF ident \in HPatientIds THEN ident ELSE FreshHPatientId,
          abha |-> ident, aadhaar |-> NULL, mobile |-> NULL]

\* lines 217-235: the loop adds one HealthRecord per record to the session
\* and stops with an exception at a record whose date does not parse
RECURSIVE StoreLoop(_, _, _, _, _)
StoreLoop(pid, records, request_id, i, pending) ==
    IF i > Len(records)
    THEN [raised |-> FALSE, pending |-> pending]
    ELSE IF ~DateParses(records[i].date)
    THEN [raised |-> TRUE, pending |-> pending]
    ELSE StoreLoop(pid, records, request_id, i + 1,
                   Append(pending, [patient |-> pid, data |-> records[i],
                                    request_id |-> request_id]))

\* Variant of the end of store_received_health_data, for the sensitivity of
\* C25: what the loop added is committed also after an exception
StoredAfter_NoRollback(loop, commit_ok) == hrecords \o loop.pending

\* lines 237-244: db.commit() makes the added rows permanent; after an
\* exception in the loop or in the commit, db.rollback() discards them
StoredAfter(loop, commit_ok) ==
    IF loop.raised \/ ~commit_ok THEN hrecords ELSE hrecords \o loop.pending

\* lines 238-244: the value store_received_health_data returns
StoreResult(loop, commit_ok) == ~loop.raised /\ commit_ok

\* store_received_health_data, lines 189-244
StoreReceivedHealthData(ident, records, request_id, commit_ok) ==
    /\ HasFreshHPatientId
    /\ Len(hrecords) + Len(records) <= MaxRecords
    /\ LET patient == PatientByIdentifier(ident)
           loop == StoreLoop(patient.id, records, request_id, 1, << >>)
       IN /\ hpatients' = hpatients \cup {patient}
          /\ hrecords' = StoredAfter(loop, commit_ok)
          /\ resp' = [op |-> "store_received_health_data", records |-> records,
                      result |-> StoreResult(loop, commit_ok)]
    /\ UNCHANGED <<core, ens, linking, hcontexts, hreg>>

\* What the gateway's delivery webhook carries: a blob the hospital's key
\* opens to a dictionary with a list of records, a blob that opens to a
\* dictionary without records, or bytes that do not open
HospitalBlobs ==
    {[kind |-> "garbage"], [kind |-> "sealed", data |-> [status |-> "EMPTY"]]}
       \cup {[kind |-> "sealed", data |-> [records |-> b]] : b \in Batches}

\* decrypt_health_data (app/utils/encryption.py): opens a sealed blob to the
\* dictionary that was sealed, and raises on anything else
DecryptHealthData(blob) ==
    IF blob.kind = "sealed"
    THEN [raised |-> FALSE, data |-> blob.data]
    ELSE [raised |-> TRUE]

\* line 274: decrypted_data.get("records", [])
RecordsOf(data) == IF "records" \in DOMAIN data THEN data.records ELSE << >>

\* Variant of the test of line 276, for the sensitivity of C22: an empty
\* list is passed on to be stored
NoRecords_Never(records) == FALSE

\* line 276: if not records
NoRecords(records) == records = << >>

\* decrypt_and_store_health_data, lines 247-291
DecryptAndStoreHealthData(ident, blob, request_id, commit_ok) ==
    /\ HasFreshHPatientId
    /\ LET opened == DecryptHealthData(blob)
           records == IF opened.raised THEN << >> ELSE RecordsOf(opened.data)
           patient == PatientByIdentifier(ident)
           loop == StoreLoop(patient.id, records, request_id, 1, << >>)
       IN /\ Len(hrecords) + Len(records) <= MaxRecords
          /\ IF opened.raised \/ NoRecords(records)
             THEN /\ resp' = [op |-> "decrypt_and_store_health_data",
                              blob |-> blob, result |-> FALSE]
                  /\ UNCHANGED <<hpatients, hrecords>>
             ELSE /\ hpatients' = hpatients \cup {patient}
                  /\ hrecords' = StoredAfter(loop, commit_ok)
                  /\ resp' = [op |-> "decrypt_and_store_health_data",
                              blob |-> blob,
                              result |-> StoreResult(loop, commit_ok)]
    /\ UNCHANGED <<core, ens, linking, hcontexts, hreg>>

----------------------------------------------------------------------------
(* Hospital patient registration: abdm-hospital/app/api/routes/patient.py.  *)
(* The three lookups of register_patient run on the synchronous session     *)
(* without interruption; the call then awaits the gateway's discover        *)
(* endpoint, and other requests are served meanwhile.                       *)

RegistrationRequests ==
    [abhaId : {NULL, "abha-1"}, aadhaar : {NULL, "aadhaar-1"}, mobile : {"m1", "m2"}]

\* what discover_patient gives back: an exception, or a dictionary with the
\* ABHA id the gateway knows for the patient (if any)
GatewayAnswers ==
    {[raised |-> TRUE]} \cup {[raised |-> FALSE, abhaId |-> a] : a \in {NULL, "abha-1"}}

\* lines 133-136, 151-154, 34-36: the patient a column value selects
PatientsWith(column, value) ==
    IF value = NULL THEN {} ELSE {r \in hpatients : r[column] = value}

\* lines 132-176: the lookups by ABHA id, by Aadhaar and by mobile, in that
\* order; the column of the first one that finds a patient
MatchedColumn(request) ==
    IF PatientsWith("abha", request.abhaId) # {} THEN "abha"
    ELSE IF PatientsWith("aadhaar", request.aadhaar) # {} THEN "aadhaar"
    ELSE IF PatientsWith("mobile", request.mobile) # {} THEN "mobile"
    ELSE NULL

MatchedPatient(request) ==
    LET column == MatchedColumn(request)
        value == IF column = "abha" THEN request.abhaId
                 ELSE IF column = "aadhaar" THEN request.aadhaar ELSE request.mobile
    IN CHOOSE r \in PatientsWith(column, value) : TRUE

\* lines 98-120: the IntegrityError create_new_patient handles: the patient
\* table has a row with the same aadhaar, abha_id or mobile
KeyConflict(row) ==
    \/ PatientsWith("abha", row.abha) # {}
    \/ PatientsWith("aadhaar", row.aadhaar) # {}
    \/ PatientsWith("mobile", row.mobile) # {}

\* lines 123-176: entry of register_patient.  A patient that matches is
\* returned (one matched by Aadhaar gets the ABHA id of the request if it
\* has none); otherwise the call goes on to the gateway
RegisterEnter(k, request) ==
    /\ hreg[k].pc = "idle"
    /\ IF MatchedColumn(request) # NULL
       THEN LET found == MatchedPatient(request)
                kept == IF /\ MatchedColumn(request) = "aadhaar"
                           /\ request.abhaId # NULL /\ found.abha = NULL
                        THEN [found EXCEPT !.abha = request.abhaId] ELSE found
            IN /\ hpatients' = (hpatients \ {found}) \cup {kept}
               /\ resp' = [op |-> "register_patient", request |-> request,
                           patientId |-> found.id, created |-> FALSE,
                           raised |-> FALSE, gateway_called |-> FALSE]
               /\ UNCHANGED hreg
       ELSE /\ hreg' = [hreg EXCEPT ![k] = [pc |-> "gateway", request |-> request]]
            /\ UNCHANGED <<hpatients, resp>>
    /\ UNCHANGED <<core, ens, linking, hrecords, hcontexts>>

\* lines 202-204, 214-216: the ABHA id the new patient is stored with
NewPatientAbha(request, answer) ==
    IF ~answer.raised /\ answer.abhaId # NULL THEN answer.abhaId ELSE request.abhaId

\* lines 201-273 and 50-120: discover_patient has returned or raised;
\* create_new_patient inserts the patient, or rolls back and raises
\* HTTP 400 when the insert is refused
RegisterFinish(k, answer) ==
    /\ hreg[k].pc = "gateway"
    /\ HasFreshHPatientId
    /\ LET request == hreg[k].request
           row == [id |-> FreshHPatientId, abha |-> NewPatientAbha(request, answer),
                   aadhaar |-> request.aadhaar, mobile |-> request.mobile]
       IN IF KeyConflict(row)
          THEN /\ UNCHANGED hpatients
               /\ resp' = [op |-> "register_patient", request |-> request,
                           patientId |-> NULL, created |-> FALSE,
                           raised |-> TRUE, gateway_called |-> TRUE]
          ELSE /\ hpatients' = hpatients \cup {row}
               /\ resp' = [op |-> "register_patient", request |-> request,
                           patientId |-> row.id, created |-> TRUE,
                           raised |-> FALSE, gateway_called |-> TRUE]
    /\ hreg' = [hreg EXCEPT ![k] = IdleRegistrar]
    /\ UNCHANGED <<core, ens, linking, hrecords, hcontexts>>

----------------------------------------------------------------------------
(* Hospital care contexts: create_care_context_for_record of                *)
(* health_data_service.py.  The lookups and the insert run on the           *)
(* synchronous session without interruption and are committed before the    *)
(* first gateway call; what follows the commit writes nothing to the        *)
(* database and only decides the answer, so the call is one action whose    *)
(* inputs include what the gateway calls do.                                *)

\* record ids (uuids), as their first eight characters and the rest
CareRecordIds ==
    {[head |-> "0a1b2c3d", rest |-> "-01"], [head |-> "0a1b2c3d", rest |-> "-02"],
     [head |-> "9f8e7d6c", rest |-> "-01"]}

\* what the gateway calls of one linking do: get_bridge_details and
\* link_care_contexts_to_gateway either raise or return, the linking request
\* (generate_link_token, init_link) either raises or goes through
GatewayLinkings == [bridge : {"ok", "raised"}, request : {"ok", "raised"},
                    link : {"LINKED", "raised"}]

\* line 676: the name of the care context of a record
ContextName(record_type, record_date, record_id) ==
    <<record_type, record_date, record_id.head>>

\* Variant of the lookup of the existing context, for the sensitivity of
\* C30: no context is ever found
ExistingContexts_None(pid, name) == {}

\* lines 680-687: the care contexts of the patient with this name
ExistingContexts(pid, name) ==
    {i \in 1..Len(hcontexts) : hcontexts[i].patient = pid /\ hcontexts[i].name = name}

\* lines 714-757: the gatewayLinking part of the answer for a new context
GatewayLinkingStatus(patient, gw) ==
    IF patient.abha = NULL THEN "SKIPPED"
    ELSE IF gw.bridge = "raised" \/ gw.link = "raised" THEN "FAILED"
    ELSE gw.link

\* lines 716-752: the gateway calls made for a new context
GatewayCalls(patient, gw) ==
    IF patient.abha = NULL \/ gw.bridge = "raised" THEN {}
    ELSE {"generate_link_token", "link_care_contexts"}
         \cup (IF gw.request = "ok" THEN {"init_link"} ELSE {})

\* lines 645-773: create_care_context_for_record
CreateCareContextForRecord(pid, record_id, record_type, record_date, gw) ==
    /\ LET name == ContextName(record_type, record_date, record_id)
           answer == [op |-> "create_care_context_for_record", patient |-> pid,
                      name |-> name, gateway |-> gw]
       IN IF \A r \in hpatients : r.id # pid
          THEN /\ resp' = answer @@ [result |-> "none", gatewayLinking |-> NULL,
                                     gateway_calls |-> {}]
               /\ UNCHANGED hcontexts
          ELSE IF ExistingContexts(pid, name) # {}
          THEN /\ resp' = answer @@ [result |-> "alreadyExists", gatewayLinking |-> NULL,
                                     gateway_calls |-> {}]
               /\ UNCHANGED hcontexts
          ELSE LET patient == CHOOSE r \in hpatients : r.id = pid IN
               /\ hcontexts' = Append(hcontexts, [patient |-> pid, name |-> name])
               /\ resp' = answer @@ [result |-> "created",
                                     gatewayLinking |-> GatewayLinkingStatus(patient, gw),
                                     gateway_calls |-> GatewayCalls(patient, gw)]
    /\ UNCHANGED <<core, ens, linking, hpatients, hrecords, hreg>>

----------------------------------------------------------------------------
(* The system *)

\* Every handler, every caller and every worker
Next ==
    \/ AdvanceClock
    \/ \E p \in PatientIds, c \in LedgerConsentIds : InitConsent(p, c)
    \/ \E c \in LedgerConsentIds \cup {UnknownConsentId}, s \in ConsentStatusInputs :
          NotifyConsent(c, s)
    \/ \E t \in TransferIds, p \in PatientIds, c \in LedgerConsentIds \cup {NULL},
          d \in DataTypeLists : ReqEnsurePatient(t, p, c, d)
    \/ \E t \in TransferIds : ReqEnsureConsent(t)
    \/ \E t \in TransferIds : ReqCreate(t)
    \/ \E t \in TransferIds : ReqDispatch(t)
    \/ \E t \in TransferIds, ok \in BOOLEAN : ReqFinish(t, ok)
    \/ \E k \in Receivers, t \in TransferIds, b \in Bundles : RecvLoad(k, t, b)
    \/ \E k \in Receivers : RecvCommit(k)
    \/ \E t \in TransferIds, c \in ConsentIds : SendHealthInfo(t, c)
    \/ \E t \in TransferIds, s \in DataFlowStatusInputs : NotifyDataFlow(t, s)
    \/ \E t \in TransferIds : Expire(t)
    \/ \E w \in Workers, t \in TransferIds : ForwardStart(w, t)
    \/ \E w \in Workers, ok \in BOOLEAN : ForwardFinish(w, ok)
    \/ \E w \in Workers, t \in TransferIds : DeliverStart(w, t)
    \/ \E w \in Workers, ok \in BOOLEAN : DeliverFinish(w, ok)
    \/ \E t \in TransferIds : GetDataRequestStatus(t)
    \/ \E t \in TransferIds, s \in DataFlowStatusInputs :
          NotifyDataFlowAnswered(t, s)
    \/ \E i \in HIdentifiers, b \in Batches, ok \in BOOLEAN :
          StoreReceivedHealthData(i, b, "t1", ok)
    \/ \E i \in HIdentifiers, b \in HospitalBlobs, ok \in BOOLEAN :
          DecryptAndStoreHealthData(i, b, "t1", ok)
    \/ \E k \in EnsureCallers, h \in EnsureHandlers, p \in SubjectIds : EnsSelect(k, h, p)
    \/ \E k \in EnsureCallers : EnsInsert(k)
    \/ \E k \in EnsureCallers : EnsRaised(k)
    \/ \E k \in EnsureCallers, c \in LedgerConsentIds : InitConsentAfterEnsure(k, c)
    \/ \E k \in EnsureCallers, t \in TransferIds, c \in LedgerConsentIds \cup {NULL},
          d \in DataTypeLists : ReqAfterEnsure(k, t, c, d)
    \/ \E p \in PatientIds, x \in GeneratedTxnIds : GenerateLinkToken(p, x)
    \/ \E p \in PatientIds, ccs \in CareContextLists : LinkCareContexts(p, ccs)
    \/ \E p \in PatientIds, x \in TxnIds : InitLink(p, x)
    \/ \E p \in PatientIds, x \in TxnIds, otp \in Otps : ConfirmLink(p, x, otp)
    \/ \E x \in TxnIds, s \in LinkStatusInputs : NotifyLink(x, s)
    \/ \E k \in Registrars, r \in RegistrationRequests : RegisterEnter(k, r)
    \/ \E k \in Registrars, a \in GatewayAnswers : RegisterFinish(k, a)
    \/ \E pid \in HPatientIds, rid \in CareRecordIds, gw \in GatewayLinkings :
          CreateCareContextForRecord(pid, rid, "PRESCRIPTION", "2024-01-01", gw)

Spec == Init /\ [][Next]_vars

(* The system is checked in parts, each the handlers and inputs one   *)
(* group of properties is about; the tables they do not touch stay as Init  *)
(* leaves them.                                                             *)

\* The transfer lifecycle: creation (for one list of data types), payload
\* receipt by one caller, the legacy handlers, the clock and one scheduler
\* worker
NextEngine ==
    \/ AdvanceClock
    \/ \E t \in TransferIds, p \in PatientIds, c \in ConsentIds \cup {NULL} :
          ReqEnsurePatient(t, p, c, <<"Prescription">>)
    \/ \E t \in TransferIds : ReqEnsureConsent(t)
    \/ \E t \in TransferIds : ReqCreate(t)
    \/ \E t \in TransferIds : ReqDispatch(t)
    \/ \E t \in TransferIds, ok \in BOOLEAN : ReqFinish(t, ok)
    \/ \E t \in TransferIds, b \in Bundles : RecvLoad(RecvOrder[1], t, b)
    \/ RecvCommit(RecvOrder[1])
    \/ \E t \in TransferIds, c \in ConsentIds : SendHealthInfo(t, c)
    \/ \E t \in TransferIds, s \in DataFlowStatusInputs : NotifyDataFlow(t, s)
    \/ \E t \in TransferIds : Expire(t)
    \/ \E t \in TransferIds : ForwardStart("w1", t)
    \/ \E ok \in BOOLEAN : ForwardFinish("w1", ok)
    \/ \E t \in TransferIds : DeliverStart("w1", t)
    \/ \E ok \in BOOLEAN : DeliverFinish("w1", ok)

SpecEngine == Init /\ [][NextEngine]_vars

\* Payload receipt: request_health_info, two concurrent callers of
\* receive_health_data_from_hip, and the clock
NextReceive ==
    \/ AdvanceClock
    \/ \E t \in TransferIds, p \in PatientIds, c \in ConsentIds \cup {NULL},
          d \in DataTypeLists : ReqEnsurePatient(t, p, c, d)
    \/ \E t \in TransferIds : ReqEnsureConsent(t)
    \/ \E t \in TransferIds : ReqCreate(t)
    \/ \E t \in TransferIds : ReqDispatch(t)
    \/ \E t \in TransferIds, ok \in BOOLEAN : ReqFinish(t, ok)
    \/ \E k \in Receivers, t \in TransferIds, b \in Bundles : RecvLoad(k, t, b)
    \/ \E k \in Receivers : RecvCommit(k)

SpecReceive == Init /\ [][NextReceive]_vars

\* The gateway Patient table under interleaved calls of init_consent and
\* request_health_info
NextPatients ==
    \/ \E k \in EnsureCallers, h \in EnsureHandlers, p \in SubjectIds : EnsSelect(k, h, p)
    \/ \E k \in EnsureCallers : EnsInsert(k)
    \/ \E k \in EnsureCallers : EnsRaised(k)
    \/ \E k \in EnsureCallers, c \in LedgerConsentIds : InitConsentAfterEnsure(k, c)
    \/ \E k \in EnsureCallers, t \in TransferIds, d \in DataTypeLists :
          ReqAfterEnsure(k, t, NULL, d)
    \/ \E t \in TransferIds : ReqEnsureConsent(t)
    \/ \E t \in TransferIds : ReqCreate(t)
    \/ \E t \in TransferIds : ReqDispatch(t)
    \/ \E t \in TransferIds, ok \in BOOLEAN : ReqFinish(t, ok)

SpecPatients == Init /\ [][NextPatients]_vars

\* Hospital patient registration
NextRegister ==
    \/ \E k \in Registrars, r \in RegistrationRequests : RegisterEnter(k, r)
    \/ \E k \in Registrars, a \in GatewayAnswers : RegisterFinish(k, a)

SpecRegister == Init /\ [][NextRegister]_vars

\* Hospital care contexts, for patients registered with and without an
\* ABHA id
NextCareContext ==
    \/ \E r \in RegistrationRequests : r.aadhaar = NULL /\ RegisterEnter("r1", r)
    \/ \E a \in GatewayAnswers : RegisterFinish("r1", a)
    \/ \E pid \in HPatientIds, rid \in CareRecordIds, gw \in GatewayLinkings :
          CreateCareContextForRecord(pid, rid, "PRESCRIPTION", "2024-01-01", gw)

SpecCareContext == Init /\ [][NextCareContext]_vars

\* Gateway linking
NextLinking ==
    \/ \E p \in PatientIds, x \in GeneratedTxnIds : GenerateLinkToken(p, x)
    \/ \E p \in PatientIds, ccs \in CareContextLists : LinkCareContexts(p, ccs)
    \/ \E p \in PatientIds, x \in TxnIds : InitLink(p, x)
    \/ \E p \in PatientIds, x \in TxnIds, otp \in Otps : ConfirmLink(p, x, otp)
    \/ \E x \in TxnIds, s \in LinkStatusInputs : NotifyLink(x, s)

SpecLinking == Init /\ [][NextLinking]_vars

\* The consent ledger and the consent gate of request_health_info
NextConsent ==
    \/ \E p \in PatientIds, c \in LedgerConsentIds : InitConsent(p, c)
    \/ \E c \in LedgerConsentIds \cup {UnknownConsentId}, s \in ConsentStatusInputs :
          NotifyConsent(c, s)
    \/ \E t \in TransferIds, p \in PatientIds, c \in LedgerConsentIds \cup {NULL},
          d \in DataTypeLists : ReqEnsurePatient(t, p, c, d)
    \/ \E t \in TransferIds : ReqEnsureConsent(t)
    \/ \E t \in TransferIds : ReqCreate(t)
    \/ \E t \in TransferIds : ReqDispatch(t)
    \/ \E t \in TransferIds, ok \in BOOLEAN : ReqFinish(t, ok)

SpecConsent == Init /\ [][NextConsent]_vars

\* The transfer table and its status query: both handlers that insert a
\* row, payload receipt (one bundle), one scheduler worker expiring and
\* delivering, the legacy status notification and get_data_request_status
NextStore ==
    \/ AdvanceClock
    \/ \E t \in TransferIds, p \in PatientIds, d \in DataTypeLists :
          ReqEnsurePatient(t, p, NULL, d)
    \/ \E t \in TransferIds : ReqEnsureConsent(t)
    \/ \E t \in TransferIds : ReqCreate(t)
    \/ \E t \in TransferIds : ReqDispatch(t)
    \/ \E t \in TransferIds, ok \in BOOLEAN : ReqFinish(t, ok)
    \/ \E t \in TransferIds : RecvLoad(RecvOrder[1], t, "b1")
    \/ RecvCommit(RecvOrder[1])
    \/ \E t \in TransferIds, c \in ConsentIds : SendHealthInfo(t, c)
    \/ \E t \in TransferIds : NotifyDataFlowAnswered(t, "PROCESSING")
    \/ \E t \in TransferIds : Expire(t)
    \/ \E t \in TransferIds : DeliverStart("w1", t)
    \/ \E ok \in BOOLEAN : DeliverFinish("w1", ok)
    \/ \E t \in TransferIds : GetDataRequestStatus(t)

SpecStore == Init /\ [][NextStore]_vars

\* Concurrent scheduler ticks: one transfer is created and receives its
\* payload, and two workers run the expire and deliver steps
NextWorkers ==
    \/ AdvanceClock
    \/ \E t \in TransferIds, p \in PatientIds :
          ReqEnsurePatient(t, p, NULL, <<"Prescription">>)
    \/ \E t \in TransferIds : ReqEnsureConsent(t)
    \/ \E t \in TransferIds : ReqCreate(t)
    \/ \E t \in TransferIds : ReqDispatch(t)
    \/ \E t \in TransferIds, ok \in BOOLEAN : ReqFinish(t, ok)
    \/ \E t \in TransferIds, b \in Bundles : RecvLoad(RecvOrder[1], t, b)
    \/ RecvCommit(RecvOrder[1])
    \/ \E t \in TransferIds : Expire(t)
    \/ \E w \in Workers, t \in TransferIds : DeliverStart(w, t)
    \/ \E w \in Workers, ok \in BOOLEAN : DeliverFinish(w, ok)

SpecWorkers == Init /\ [][NextWorkers]_vars

\* The receiving hospital's storage of delivered health data
NextHealthData ==
    \/ \E i \in HIdentifiers, b \in Batches, ok \in BOOLEAN :
          StoreReceivedHealthData(i, b, "t1", ok)
    \/ \E i \in HIdentifiers, b \in HospitalBlobs, ok \in BOOLEAN :
          DecryptAndStoreHealthData(i, b, "t1", ok)

SpecHealthData == Init /\ [][NextHealthData]_vars

----------------------------------------------------------------------------
(* Properties *)

\* C1: once a transfer's status is DELIVERED or EXPIRED, no step of any
\* handler or of the scheduler changes it to another value.
C1_TerminalIsFinal ==
    [][\A t \in TransferIds :
         tr[t].status \in {"DELIVERED", "EXPIRED"}
            => tr'[t].status = tr[t].status]_vars

\* C2: for every transfer row, the encrypted payload is stored if and only
\* if the status is READY or DELIVERED.
C2_PayloadIffReadyOrDelivered ==
    \A t \in TransferIds :
        Exists(t) =>
            (tr[t].encrypted_data # NULL <=> tr[t].status \in {"READY", "DELIVERED"})

\* C3: the consent of a transfer is APPROVED when request_health_info
\* decides to forward it, and no forwarding webhook is sent for a call that
\* named a consent which notify had set to REVOKED or DENIED.
C3_ForwardOnlyIfConsentApproved ==
    [][\A t \in TransferIds :
         /\ (req[t].pc = "patient" /\ req'[t].pc = "consent")
               => consent'[ApprovedConsentId(t, req[t].consent_arg)] = "APPROVED"
         /\ (req[t].pc = "created" /\ req'[t].pc = "sending")
               => req[t].seen \notin {"REVOKED", "DENIED"}]_vars

\* C4: of two interleaved submissions for one transfer exactly one wins: a
\* submission never reports success by overwriting the payload another
\* submission has stored since the transfer became READY.
C4_ExactlyOneSubmissionWins ==
    [][\A k, k2 \in Receivers :
         (/\ k # k2
          /\ recv[k].pc = "loaded"
          /\ recv'[k].pc = "idle" /\ recv'[k].result = "READY"
          /\ recv[k2].pc = "idle" /\ recv[k2].result = "READY"
          /\ recv[k2].target = recv[k].target)
            => ~(/\ tr[recv[k].target].status = "READY"
                 /\ tr[recv[k].target].encrypted_data = Encrypt(recv[k2].bundle))]_vars

\* C5 (as stated): a submission that finds the transfer REQUESTED ends with
\* an error result.
C5_RequestedIsRejected ==
    \A k \in Receivers :
        recv[k].seen = "REQUESTED"
            => (recv[k].pc = "idle" /\ recv[k].result = "FAILED")

\* C5 (amended): a submission that finds the transfer REQUESTED is accepted:
\* the status check passes, the call returns a READY result and its write
\* sets the status to READY and the payload to the encrypted bundle.
C5_RequestedIsAccepted ==
    [][\A k \in Receivers :
         /\ (/\ recv[k].pc = "idle" /\ recv'[k] # recv[k]
             /\ tr[recv'[k].target].status = "REQUESTED")
               => (recv'[k].pc = "loaded" /\ recv'[k].seen = "REQUESTED")
         /\ (recv[k].pc = "loaded" /\ recv[k].seen = "REQUESTED" /\ recv'[k].pc = "idle")
               => /\ recv'[k].result = "READY"
                  /\ tr'[recv[k].target].status = "READY"
                  /\ tr'[recv[k].target].encrypted_data = Encrypt(recv[k].bundle)]_vars

C5_Witness ==
    \E k \in Receivers :
        /\ recv[k].pc = "idle" /\ recv[k].seen = "REQUESTED"
        /\ recv[k].result = "READY"
        /\ tr[recv[k].target].status = "READY"
        /\ tr[recv[k].target].encrypted_data = Encrypt(recv[k].bundle)

\* C6: a submission for an existing transfer whose status is none of
\* REQUESTED, FORWARDED, PROCESSING returns an error result with status
\* FAILED and changes nothing in the transfer table.
C6_OtherStatusIsRejected ==
    [][\A k \in Receivers :
         (/\ recv[k].pc = "idle" /\ recv'[k] # recv[k]
          /\ Exists(recv'[k].target)
          /\ tr[recv'[k].target].status \notin {"REQUESTED", "FORWARDED", "PROCESSING"})
            => /\ recv'[k].pc = "idle"
               /\ recv'[k].result = "FAILED"
               /\ tr' = tr]_vars

C6_Witness ==
    \E k \in Receivers :
        /\ recv[k].pc = "idle" /\ recv[k].result = "FAILED"
        /\ recv[k].seen \in {"READY", "DELIVERED", "FAILED", "EXPIRED"}
        /\ tr[recv[k].target].status = recv[k].seen

\* C7: a submission that finds the transfer FORWARDED is accepted; its write
\* sets the status to READY, the payload to the encrypted bundle and the
\* next-action time to the time of the write, and it returns READY.
C7_ForwardedBecomesReady ==
    [][\A k \in Receivers :
         /\ (/\ recv[k].pc = "idle" /\ recv'[k] # recv[k]
             /\ tr[recv'[k].target].status = "FORWARDED")
               => (recv'[k].pc = "loaded" /\ recv'[k].seen = "FORWARDED")
         /\ (recv[k].pc = "loaded" /\ recv[k].seen = "FORWARDED" /\ recv'[k].pc = "idle")
               => /\ recv'[k].result = "READY"
                  /\ tr'[recv[k].target].status = "READY"
                  /\ tr'[recv[k].target].encrypted_data = Encrypt(recv[k].bundle)
                  /\ tr'[recv[k].target].next_retry_at = now]_vars

C7_Witness ==
    \E k \in Receivers :
        /\ recv[k].pc = "idle" /\ recv[k].seen = "FORWARDED"
        /\ recv[k].result = "READY"
        /\ now > 0
        /\ tr[recv[k].target].status = "READY"
        /\ tr[recv[k].target].encrypted_data = Encrypt(recv[k].bundle)
        /\ tr[recv[k].target].next_retry_at = now

\* The transitions of the transfer lifecycle
LifecycleStep(from, to) ==
    \/ from = "REQUESTED" /\ to \in {"FORWARDED", "FAILED", "READY"}
    \/ from = "FORWARDED" /\ to = "READY"
    \/ from \in {"READY", "FAILED"} /\ to \in {"DELIVERED", "FAILED"}
    \/ from \in {"REQUESTED", "FORWARDED", "READY", "FAILED"} /\ to = "EXPIRED"

\* C8: every change of the status of an existing transfer is a transition
\* of the lifecycle, and leads to a status of the lifecycle.
C8_OnlyLifecycleTransitions ==
    [][\A t \in TransferIds :
         (Exists(t) /\ tr'[t].status # tr[t].status)
            => /\ tr'[t].status \in {"REQUESTED", "FORWARDED", "READY",
                                     "DELIVERED", "FAILED", "EXPIRED"}
               /\ LifecycleStep(tr[t].status, tr'[t].status)]_vars

\* C9: retry_count never exceeds max_retries, and a transfer whose
\* retry_count has reached max_retries stays FAILED (or EXPIRED) and is not
\* dispatched again.
C9_RetryBound ==
    [][\A t \in TransferIds :
         /\ tr[t].retry_count <= MaxRetries
         /\ tr[t].retry_count = MaxRetries
               => /\ tr[t].status \in {"FAILED", "EXPIRED"}
                  /\ tr'[t].status \in {"FAILED", "EXPIRED"}
                  /\ \A w \in Workers :
                        ~(wk[w].op = "idle" /\ wk'[w].op # "idle" /\ wk'[w].t = t)]_vars

\* C10: the scheduler starts a delivery to the requester only for a transfer
\* whose expires_at has not passed, also when the payload arrived after
\* expires_at.
C10_NoDeliveryAfterExpiry ==
    [][\A w \in Workers :
         (wk[w].op = "idle" /\ wk'[w].op = "deliver")
            => /\ tr[wk'[w].t].expires_at # NoTime
               /\ tr[wk'[w].t].expires_at > now]_vars

\* a payload was received at or after expires_at with retries left, and the
\* scheduler moved the transfer to EXPIRED
C10_Witness ==
    \E t \in TransferIds, k \in Receivers :
        /\ recv[k].pc = "idle" /\ recv[k].result = "READY" /\ recv[k].target = t
        /\ tr[t].encrypted_data # NULL
        /\ tr[t].expires_at # NoTime /\ tr[t].expires_at <= now
        /\ tr[t].next_retry_at >= tr[t].expires_at
        /\ tr[t].retry_count < MaxRetries
        /\ tr[t].status = "EXPIRED"

\* C11: two workers never have a dispatcher call in flight for the same
\* delivery attempt of one transfer, and a worker whose dispatcher call
\* succeeded on a transfer that is already DELIVERED leaves the row as it is.
C11_DispatchedOncePerAttempt ==
    [][/\ \A w, w2 \in Workers :
            (/\ w # w2
             /\ wk[w].op = "deliver" /\ wk[w2].op = "deliver"
             /\ wk[w].t = wk[w2].t)
               => wk[w].rc # wk[w2].rc
       /\ \A t \in TransferIds :
            (tr[t].status = "DELIVERED"
             /\ \E w \in Workers : wk[w].op = "deliver" /\ wk'[w].op = "idle")
               => tr'[t] = tr[t]]_vars

\* C13: every step that inserts a transfer row inserts it with status
\* REQUESTED, whichever handler inserts it.
C13_CreatedRequested ==
    [][\A t \in TransferIds :
         (Absent(t) /\ tr'[t].status # "ABSENT")
            => tr'[t].status = "REQUESTED"]_vars

\* C14: the row request_health_info commits, before its webhook call, has
\* status REQUESTED, expires_at 24 hours after the creation time,
\* next_retry_at equal to the creation time, no payload, and data_count
\* equal to the number of requested data types.
C14_CommittedRecord ==
    [][\A t \in TransferIds :
         (req[t].pc = "consent" /\ req'[t].pc = "created")
            => /\ Absent(t)
               /\ tr'[t].status = "REQUESTED"
               /\ tr'[t].expires_at = now + 24
               /\ tr'[t].next_retry_at = now
               /\ tr'[t].encrypted_data = NULL
               /\ tr'[t].data_count = Len(req[t].data_types)]_vars

\* a call that asked for one data type has committed its row after the
\* clock had advanced, and has not yet sent its webhook
C14_Witness ==
    \E t \in TransferIds :
        /\ req[t].pc = "created" /\ Len(req[t].data_types) = 1
        /\ now > 0
        /\ tr[t].status = "REQUESTED"
        /\ tr[t].next_retry_at = now /\ tr[t].expires_at = now + 24
        /\ tr[t].encrypted_data = NULL
        /\ tr[t].data_count = 1

\* C15: when the forwarding webhook of request_health_info fails, the write
\* that follows sets the status to FAILED, adds one to webhook_attempts and
\* sets next_retry_at to a time after the attempt.
C15_FailedForwardSchedulesRetry ==
    [][\A t \in TransferIds :
         (/\ req[t].pc = "sending"
          /\ req'[t].pc = "done" /\ req'[t].result = "FAILED")
            => /\ tr'[t].status = "FAILED"
               /\ tr'[t].webhook_attempts = tr[t].webhook_attempts + 1
               /\ tr'[t].next_retry_at > now]_vars

\* C16: no step of request_health_info changes the consent table; a consent
\* record appears only in a step of init_consent, and the status of an
\* existing record changes only in a step of notify_consent for that record.
C16_EngineNeverWritesLedger ==
    [][/\ \A t \in TransferIds : req'[t] # req[t] => consent' = consent
       /\ \A c \in ConsentKeys :
            /\ (consent[c] = "ABSENT" /\ consent'[c] # "ABSENT")
                  => (resp'.op = "init_consent" /\ resp'.consentRequestId = c)
            /\ (consent[c] # "ABSENT" /\ consent'[c] # consent[c])
                  => (resp'.op = "notify_consent" /\ resp'.consentRequestId = c)]_vars

\* C17: the status of every consent record is one of PENDING, APPROVED,
\* DENIED, REVOKED.
C17_ConsentStatusInDomain ==
    \A c \in ConsentKeys :
        consent[c] # "ABSENT"
            => consent[c] \in {"PENDING", "APPROVED", "DENIED", "REVOKED"}

\* C18: a call of init_consent stores one new record, under an id no record
\* had, returns that id, and the record is APPROVED on return, which is
\* what get_consent_status reports for the id; every other consent record is
\* as it was.
C18_InitConsentCreatesApproved ==
    [][(resp' # resp /\ resp'.op = "init_consent")
          => \E c \in ConsentKeys :
                /\ resp'.consentRequestId = c
                /\ consent[c] = "ABSENT"
                /\ consent'[c] = "APPROVED"
                /\ resp'.status = "APPROVED"
                /\ GetConsentStatus(c)' = "APPROVED"
                /\ \A c2 \in ConsentKeys \ {c} : consent'[c2] = consent[c2]]_vars

\* init_consent has returned a new APPROVED record next to an older record
\* that is not APPROVED
C18_Witness ==
    /\ resp.op = "init_consent" /\ resp.status = "APPROVED"
    /\ consent[resp.consentRequestId] = "APPROVED"
    /\ \E c \in ConsentKeys \ {resp.consentRequestId} : consent[c] = "REVOKED"

\* C19: notify_consent for an id that has no record returns NOT_FOUND and
\* leaves the consent table as it was; for an id that has a record it
\* returns the given status, sets that record's status to it and leaves
\* every other record as it was.
C19_NotifyConsentFrame ==
    [][(/\ resp'.op = "notify_consent"
        /\ req' = req
        /\ resp' # resp \/ consent' # consent)
          => LET c == resp'.consentRequestId IN
             IF c \in ConsentKeys /\ consent[c] # "ABSENT"
             THEN /\ resp'.status # "NOT_FOUND"
                  /\ consent' = [consent EXCEPT ![c] = resp'.status]
             ELSE /\ resp'.status = "NOT_FOUND"
                  /\ consent' = consent]_vars

\* the last call named an id without a record, was answered NOT_FOUND, and
\* the id still has no record, while another record exists
C19_Witness ==
    /\ resp.op = "notify_consent" /\ resp.status = "NOT_FOUND"
    /\ resp.consentRequestId \in LedgerConsentIds
    /\ consent[resp.consentRequestId] = "ABSENT"
    /\ \E c \in ConsentKeys : consent[c] = "DENIED"

\* The keys get_data_request_status may return, none of them the payload
StatusInfoKeys ==
    {"requestId", "status", "dataCount", "dataStored", "expiresAt",
     "retryCount", "maxRetries", "webhookAttempts", "lastError"}

\* C20 (as stated): for an existing transfer in any status the answer of
\* get_data_request_status carries the status, the retry count, the
\* webhook-attempt count, the last error and the payload flag.
C20_StatusAlwaysWithRetryInfo ==
    (resp.op = "get_data_request_status" /\ resp.found)
        => {"status", "retryCount", "webhookAttempts", "lastError", "dataStored"}
              \subseteq DOMAIN resp.info

\* C20 (amended): for an existing transfer get_data_request_status returns
\* the status and a flag that is true exactly when a payload is stored; it
\* returns the retry count, the webhook-attempt count and the last error
\* exactly when the status is READY or FAILED; the payload is not among
\* the returned keys, and the call changes no table.
C20_StatusQuery ==
    [][(resp' # resp /\ resp'.op = "get_data_request_status")
          => /\ UNCHANGED <<now, patients, consent, tr, req, recv, wk>>
             /\ resp'.found = Exists(resp'.requestId)
             /\ resp'.found =>
                  LET info == resp'.info
                      row == tr[resp'.requestId]
                  IN /\ DOMAIN info \subseteq StatusInfoKeys
                     /\ {"status", "dataStored"} \subseteq DOMAIN info
                     /\ info.status = row.status
                     /\ info.dataStored = (row.encrypted_data # NULL)
                     /\ IF row.status \in {"READY", "FAILED"}
                        THEN /\ {"retryCount", "webhookAttempts", "lastError"}
                                   \subseteq DOMAIN info
                             /\ info.retryCount = row.retry_count
                             /\ info.webhookAttempts = row.webhook_attempts
                             /\ info.lastError = row.last_error
                        ELSE DOMAIN info \cap {"retryCount", "webhookAttempts",
                                               "lastError"} = {}]_vars

\* the query was answered for a FAILED transfer that holds a payload and
\* has failed deliveries behind it
C20_Witness ==
    /\ resp.op = "get_data_request_status" /\ resp.found
    /\ resp.info.status = "FAILED" /\ resp.info.dataStored
    /\ resp.info.retryCount = MaxRetries
    /\ resp.info.webhookAttempts > 0
    /\ resp.info.lastError # NULL

\* C21: for a transfer id that has no row, get_data_request_status returns
\* no record, receive_health_data_from_hip ends with an error result and
\* notify_data_flow returns NOT_FOUND; none of the three inserts a row or
\* changes a table.
C21_UnknownTransferIsBenign ==
    [][\A t \in TransferIds :
         Absent(t) =>
            /\ (/\ resp' # resp /\ resp'.op = "get_data_request_status"
                /\ resp'.requestId = t)
                  => (~resp'.found /\ UNCHANGED <<tr, consent, patients>>)
            /\ (/\ resp' # resp /\ resp'.op = "notify_data_flow"
                /\ resp'.txnId = t)
                  => (resp'.status = "NOT_FOUND" /\ UNCHANGED <<tr, consent, patients>>)
            /\ \A k \in Receivers :
                  (/\ recv[k].pc = "idle" /\ recv'[k] # recv[k]
                   /\ recv'[k].target = t)
                     => /\ recv'[k].pc = "idle" /\ recv'[k].result = "FAILED"
                        /\ UNCHANGED <<tr, consent, patients>>]_vars

\* notify_data_flow and receive_health_data_from_hip have both been called
\* for an id that has no row, and there is still no row
C21_Witness ==
    /\ resp.op = "notify_data_flow" /\ resp.status = "NOT_FOUND"
    /\ Absent(resp.txnId)
    /\ \E k \in Receivers :
          /\ recv[k].target = resp.txnId /\ recv[k].seen = "ABSENT"
          /\ recv[k].pc = "idle" /\ recv[k].result = "FAILED"

\* C23: when the payload of a transfer has been stored (status READY) by the
\* time the forwarding webhook of request_health_info returns, the status
\* write of request_health_info leaves the transfer READY with its payload.
C23_LateStatusWriteKeepsReady ==
    [][\A t \in TransferIds :
         (/\ req[t].pc = "sending" /\ req'[t].pc = "done"
          /\ tr[t].status = "READY" /\ tr[t].encrypted_data # NULL)
            => /\ tr'[t].status = "READY"
               /\ tr'[t].encrypted_data = tr[t].encrypted_data]_vars

\* C24: at the return of request_health_info the stored status of the
\* transfer is FORWARDED if the forwarding webhook reported success and
\* FAILED if it did not, and the returned status is the stored one.
C24_ReturnedStatusIsStored ==
    [][\A t \in TransferIds :
         (req[t].pc = "sending" /\ req'[t].pc = "done")
            => /\ tr'[t].status = "FORWARDED" <=> req'[t].webhook_sent
               /\ tr'[t].status = "FAILED" <=> ~req'[t].webhook_sent
               /\ req'[t].result = tr'[t].status]_vars

\* a call whose webhook failed has returned FAILED, after another call's
\* write had made the transfer READY, and the stored status is FAILED
C24_Witness ==
    \E t \in TransferIds, k \in Receivers :
        /\ req[t].pc = "done" /\ ~req[t].webhook_sent
        /\ req[t].result = "FAILED" /\ tr[t].status = "FAILED"
        /\ recv[k].target = t /\ recv[k].result = "READY"

\* C22: decrypt_and_store_health_data, given a blob that does not decrypt or
\* that decrypts to a dictionary with no records, returns False and leaves
\* the HealthRecord table as it was.
C22_BadBlobIsNonFatal ==
    [][(/\ resp'.op = "decrypt_and_store_health_data"
        /\ resp' # resp \/ hrecords' # hrecords
        /\ \/ DecryptHealthData(resp'.blob).raised
           \/ RecordsOf(DecryptHealthData(resp'.blob).data) = << >>)
          => (~resp'.result /\ hrecords' = hrecords)]_vars

\* the last call was given bytes that do not decrypt and returned False,
\* and the records stored before it are the table
C22_Witness ==
    /\ resp.op = "decrypt_and_store_health_data"
    /\ resp.blob.kind = "garbage" /\ ~resp.result
    /\ Len(hrecords) > 0

\* C25: store_received_health_data returns True only when it has appended
\* one row per record of the batch, in order; when a record of the batch
\* has a date that does not parse it returns False; and whenever it
\* returns False the HealthRecord table is as it was.
C25_StoreIsAllOrNothing ==
    [][(/\ resp'.op = "store_received_health_data"
        /\ resp' # resp \/ hrecords' # hrecords \/ hpatients' # hpatients)
          => LET b == resp'.records IN
             /\ resp'.result
                   => /\ Len(hrecords') = Len(hrecords) + Len(b)
                      /\ \A i \in 1..Len(hrecords) : hrecords'[i] = hrecords[i]
                      /\ \A i \in 1..Len(b) : hrecords'[Len(hrecords) + i].data = b[i]
             /\ (\E i \in 1..Len(b) : ~DateParses(b[i].date)) => ~resp'.result
             /\ ~resp'.result => hrecords' = hrecords]_vars

\* a batch whose second record has a bad date was refused, and the first
\* record of the batch is not in the table
C25_Witness ==
    /\ resp.op = "store_received_health_data" /\ ~resp.result
    /\ Len(resp.records) = 2
    /\ DateParses(resp.records[1].date) /\ ~DateParses(resp.records[2].date)
    /\ hpatients # {}
    /\ hrecords = << >>

C27_LinkCareContextsIdempotent ==
    [][/\ \A c \in CareContextIds : Cardinality(ContextRows(lcc', c)) <= 1
       /\ (resp'.op = "link_care_contexts" /\ (resp' # resp \/ lcc' # lcc))
             => /\ resp'.count = Len(lcc') - Len(lcc)
                /\ \A i \in 1..Len(lcc) : lcc'[i] = lcc[i]
                /\ (resp.op = "link_care_contexts"
                      /\ resp.care_contexts = resp'.care_contexts)
                      => (resp'.count = 0 /\ lcc' = lcc)]_vars

\* the last call repeated a list of two different care contexts that are
\* both linked, and returned count 0
C27_Witness ==
    /\ resp.op = "link_care_contexts" /\ resp.count = 0
    /\ Len(resp.care_contexts) = 2
    /\ resp.care_contexts[1] # resp.care_contexts[2]
    /\ Len(lcc) = 2

\* C28: the LinkingRequest table never holds two rows with the same
\* transaction id; after init_link the transaction has a row with status
\* LINKED and after confirm_link one with status CONFIRMED, whatever the
\* otp and whether or not it had a row before; notify_link for a
\* transaction without a row leaves the table as it was.
C28_OneLinkingRequestPerTxn ==
    [][/\ \A x \in TxnIds : Cardinality(LinkRows(x)') <= 1
       /\ \A x \in TxnIds :
            (resp'.op \in {"init_link", "confirm_link"} /\ resp'.txnId = x
              /\ (resp' # resp \/ lreq' # lreq))
               => /\ LinkRows(x)' # {}
                  /\ \A i \in LinkRows(x)' : lreq'[i].status = resp'.status
                  /\ resp'.status = (IF resp'.op = "init_link" THEN "LINKED"
                                                               ELSE "CONFIRMED")
       /\ \A x \in TxnIds :
            (resp'.op = "notify_link" /\ resp'.txnId = x /\ resp' # resp
              /\ LinkRows(x) = {})
               => lreq' = lreq]_vars

\* confirm_link was the last call, on the transaction id no token was
\* generated for, with the otp that is not the expected one, while the
\* other transactions have rows of their own
C28_Witness ==
    /\ resp.op = "confirm_link" /\ resp.txnId = CallerTxnId
    /\ resp.otp = "000000"
    /\ Len(lreq) = 3
    /\ \E i \in 1..Len(lreq) :
          lreq[i].txn_id = CallerTxnId /\ lreq[i].status = "CONFIRMED"
    /\ \E i \in 1..Len(lreq) : lreq[i].status = "FAILED"

\* C29: a register_patient call that finds a patient with the ABHA id, the
\* Aadhaar or the mobile of the request returns that patient's id, calls no
\* gateway and adds no patient; a call that found none adds exactly one
\* patient when it finishes, whether discover_patient returned or raised.
C29_RegisterCreatesOneOrReturnsExisting ==
    [][/\ (resp'.op = "register_patient" /\ resp' # resp /\ hreg' = hreg)
            => /\ ~resp'.gateway_called /\ ~resp'.created
               /\ \E r \in hpatients : r.id = resp'.patientId
               /\ {r.id : r \in hpatients'} = {r.id : r \in hpatients}
       /\ \A k \in Registrars :
            (hreg[k].pc = "gateway" /\ hreg'[k].pc = "idle")
               => /\ resp'.created
                  /\ Cardinality(hpatients') = Cardinality(hpatients) + 1]_vars

=============================================================================
